---- MODULE Spec2Model ----
(***************************************************************************)
(* Model of src/src/Inner_edge.c: the planet-trap multiplier               *)
(* rebx_calculate_planet_trap, the per-body force evaluator                *)
(* rebx_calculating_orbits_with_inner_disc_edge and the entry point        *)
(* rebx_inner_disc_edge.                                                   *)
(*                                                                         *)
(* A C double is carried as a record [k, n, d]: k = "fin" is the exact     *)
(* rational n/d in lowest terms (d > 0), k = "inf" is +/-INFINITY (sign in *)
(* n), k = "nan" is NaN.  The operations follow IEEE 754 for the special   *)
(* values (x/0, 0/0, inf*0, comparisons with NaN); rounding and the sign   *)
(* of zero are not modelled.  Angles are carried as rational multiples of  *)
(* pi, so the constant M_PI is the unit of angle.                          *)
(***************************************************************************)
EXTENDS Integers, FiniteSets, Sequences, TLC

VARIABLES
    pc,         \* position of the force pass: "start", "com_force", "aborted";
                \* "trap" where only the trap function is called
    particles,  \* [Bodies -> reb_particle]: x, y, z, vx, vy, vz, m
    pap,        \* [Bodies -> parameters attached to the particle (p->ap)]
    source,     \* the reference body handed to the evaluator
    fap,        \* parameters attached to the force (force->ap)
    aOracle,    \* [Bodies -> semimajor axis the element conversion yields]
    comCall,    \* arguments rebx_inner_disc_edge passed to rebx_com_force
    evalLog,    \* [Bodies -> what the evaluator did for that body, or NoEval]
    trapArgs,   \* arguments of a direct call of rebx_calculate_planet_trap
    trapRet     \* what that call did, or NoCall

vars == <<pc, particles, pap, source, fap, aOracle, comCall, evalLog,
          trapArgs, trapRet>>

-----------------------------------------------------------------------------
(* C double arithmetic *)

Abs(i) == IF i < 0 THEN -i ELSE i

Sign(i) == IF i < 0 THEN -1 ELSE IF i = 0 THEN 0 ELSE 1

RECURSIVE GCD(_, _)
GCD(a, b) == IF b = 0 THEN a ELSE GCD(b, a % b)

NaN == [k |-> "nan", n |-> 0, d |-> 1]

INFINITY == [k |-> "inf", n |-> 1, d |-> 1]

NegInfinity == [k |-> "inf", n |-> -1, d |-> 1]

Inf(s) == IF s < 0 THEN NegInfinity ELSE INFINITY

\* the finite double n/d (d # 0), in lowest terms
Fin(n, d) ==
    LET s == IF d < 0 THEN -1 ELSE 1
        g == GCD(Abs(n), Abs(d))
    IN  [k |-> "fin", n |-> (s * n) \div g, d |-> (s * d) \div g]

Zero == Fin(0, 1)

One == Fin(1, 1)

Two == Fin(2, 1)

Four == Fin(4, 1)

IsNaN(a) == a.k = "nan"

IsFin(a) == a.k = "fin"

IsInf(a) == a.k = "inf"

Mul(a, b) ==
    IF IsNaN(a) \/ IsNaN(b) THEN NaN
    ELSE IF IsInf(a) \/ IsInf(b)
         THEN IF a.n = 0 \/ b.n = 0 THEN NaN ELSE Inf(Sign(a.n) * Sign(b.n))
         ELSE Fin(a.n * b.n, a.d * b.d)

Div(a, b) ==
    IF IsNaN(a) \/ IsNaN(b) THEN NaN
    ELSE IF IsInf(a)
         THEN IF IsInf(b) THEN NaN
              ELSE Inf(Sign(a.n) * (IF b.n < 0 THEN -1 ELSE 1))
    ELSE IF IsInf(b) THEN Zero
    ELSE IF b.n = 0
         THEN IF a.n = 0 THEN NaN ELSE Inf(Sign(a.n))
         ELSE Fin(a.n * b.d, a.d * b.n)

Add(a, b) ==
    IF IsNaN(a) \/ IsNaN(b) THEN NaN
    ELSE IF IsInf(a)
         THEN IF IsInf(b) /\ a.n # b.n THEN NaN ELSE a
    ELSE IF IsInf(b) THEN b
    ELSE Fin(a.n * b.d + b.n * a.d, a.d * b.d)

Neg(a) == IF IsNaN(a) THEN NaN ELSE [a EXCEPT !.n = -a.n]

Sub(a, b) == Add(a, Neg(b))

\* a < b; false whenever an operand is NaN
Less(a, b) ==
    IF IsNaN(a) \/ IsNaN(b) THEN FALSE
    ELSE IF IsInf(a) THEN a.n < 0 /\ ~(IsInf(b) /\ b.n < 0)
    ELSE IF IsInf(b) THEN b.n > 0
    ELSE a.n * b.d < b.n * a.d

\* a <= b; false whenever an operand is NaN
Leq(a, b) == ~IsNaN(a) /\ ~IsNaN(b) /\ ~Less(b, a)

\* the angle pi, the unit in which angles are carried
M_PI == One

\* cos on [0, pi/2], x in units of pi: Bhaskara's rational form, exact at
\* 0, pi/3 and pi/2 and within 0.002 of the cosine in between
CosQuarter(x) ==
    Div(Sub(One, Mul(Four, Mul(x, x))), Add(One, Mul(x, x)))

\* cos(x), x in units of pi: even, of period 2 pi, cos(pi - x) = -cos(x);
\* NaN for a NaN or infinite argument
Cos(x) ==
    IF ~IsFin(x) THEN NaN
    ELSE LET a == Fin(Abs(x.n), x.d)
             m == Sub(a, Fin(2 * (a.n \div (2 * a.d)), 1))
             f == IF Less(One, m) THEN Sub(Two, m) ELSE m
         IN  IF Leq(f, Fin(1, 2)) THEN CosQuarter(f)
             ELSE Neg(CosQuarter(Sub(One, f)))

-----------------------------------------------------------------------------
(* rebx_calculate_planet_trap *)

\* the place of a double that was never computed
NoValue == [k |-> "none", n |-> 0, d |-> 1]

NoCall == [branch |-> "none", divisor |-> NoValue, arg |-> NoValue,
           ret |-> NoValue]

\* dedge*(1.0 + h)
OuterRadius(h, dedge) == Mul(dedge, Add(One, h))

\* dedge*(1.0 - h)
InnerRadius(h, dedge) == Mul(dedge, Sub(One, h))

\* r > dedge*(1.0 + h)
AboveWindow(r, h, dedge) == Less(OuterRadius(h, dedge), r)

InWindowMut(r, h, dedge) == Leq(InnerRadius(h, dedge), r)

\* dedge*(1.0 - h) < r
InWindow(r, h, dedge) == Less(InnerRadius(h, dedge), r)

\* 4 * h * dedge
TrapDivisor(h, dedge) == Mul(Mul(Four, h), dedge)

TrapArgMut(r, h, dedge) ==
    Div(Mul(Mul(Sub(Mul(dedge, Add(One, h)), r), Four), M_PI),
        TrapDivisor(h, dedge))

\* ((dedge * (1.0 + h) - r) * 2 * M_PI) / (4 * h * dedge)
TrapArg(r, h, dedge) ==
    Div(Mul(Mul(Sub(Mul(dedge, Add(One, h)), r), Two), M_PI),
        TrapDivisor(h, dedge))

CosineFormMut(r, h, dedge) ==
    Sub(Mul(Fin(55, 10), Cos(TrapArg(r, h, dedge))), Fin(55, 10))

\* 5.5 * cos(arg) - 4.5
CosineForm(r, h, dedge) ==
    Sub(Mul(Fin(55, 10), Cos(TrapArg(r, h, dedge))), Fin(45, 10))

\* the call, with the branch taken, the divisor and the cosine argument it
\* computed (NoValue where the branch computes none) and the value returned
TrapTrace(r, h, dedge) ==
    IF AboveWindow(r, h, dedge)
    THEN [branch |-> "outer", divisor |-> NoValue, arg |-> NoValue,
          ret |-> Fin(10, 10)]
    ELSE IF InWindow(r, h, dedge)
    THEN [branch |-> "cosine", divisor |-> TrapDivisor(h, dedge),
          arg |-> TrapArg(r, h, dedge), ret |-> CosineForm(r, h, dedge)]
    ELSE [branch |-> "floor", divisor |-> NoValue, arg |-> NoValue,
          ret |-> Fin(-100, 10)]

rebx_calculate_planet_trap(r, h, dedge) == TrapTrace(r, h, dedge).ret

-----------------------------------------------------------------------------
(* parameters and pointers *)

\* a pointer returned by rebx_get_param: NULL, or the address of a value
NULL == [null |-> TRUE, val |-> NoValue]

Ptr(v) == [null |-> FALSE, val |-> v]

\* ap is the list of parameters attached to a particle or to the force
rebx_get_param(ap, name) ==
    IF name \in DOMAIN ap THEN Ptr(ap[name]) ELSE NULL

\* what a read through a NULL pointer does: the process is killed (segv), or
\* the read yields whatever the address holds (val)
Segv == [segv |-> TRUE, val |-> NoValue]

Garbage(v) == [segv |-> FALSE, val |-> v]

NoUB == Garbage(NoValue)

GarbageValues == {Zero, One}

-----------------------------------------------------------------------------
(* rebx_calculating_orbits_with_inner_disc_edge *)

Vec(x, y, z) == [x |-> x, y |-> y, z |-> z]

ZeroVec == Vec(Zero, Zero, Zero)

NoVec == Vec(NoValue, NoValue, NoValue)

\* the element conversion of REBOUND: err = 1 when the mass of the primary
\* is zero, err = 2 when the particle is at the primary, and then the
\* elements are NaN; otherwise a is the semimajor axis (aConv)
reb_tools_particle_to_orbit_err(p, primary, aConv) ==
    IF Leq(primary.m, Zero) THEN [a |-> NaN, err |-> 1]
    ELSE IF p.x = primary.x /\ p.y = primary.y /\ p.z = primary.z
    THEN [a |-> NaN, err |-> 2]
    ELSE [a |-> aConv, err |-> 0]

InvTauAInitMut == One

\* double invtau_a = 0.0
InvTauAInit == Zero

DragTermMut(dv, invtau_a) == Mul(dv, invtau_a)

\* dv*invtau_a/(2.)
DragTerm(dv, invtau_a) == Div(Mul(dv, invtau_a), Two)

NoEval == [status |-> "none", a |-> NoVec, invtau_a |-> NoValue,
           drag |-> NoVec, trap |-> NoCall, derefs |-> {}, a0 |-> NoValue,
           err |-> 0]

\* One call of the evaluator for particle p (parameters pp) against source,
\* with the force's parameters fp.  ub is the outcome of reading through a
\* NULL pointer, should the call do so.  The record holds the vector
\* returned (a) and what the call computed on the way: invtau_a, the drag
\* term, the call of the trap function, the force parameters it read through
\* their pointers (derefs), and the conversion's a0 and err.
rebx_calculating_orbits_with_inner_disc_edge(p, src, pp, fp, aConv, ub) ==
    LET tau_a_ptr == rebx_get_param(pp, "tau_a")
        tau_e_ptr == rebx_get_param(pp, "tau_e")
        tau_inc_ptr == rebx_get_param(pp, "tau_inc")
        dedge == rebx_get_param(fp, "inner_disc_edge")
        h == rebx_get_param(fp, "disc_edge_width")
        dvx == Sub(p.vx, src.vx)
        dvy == Sub(p.vy, src.vy)
        dvz == Sub(p.vz, src.vz)
        dx == Sub(p.x, src.x)
        dy == Sub(p.y, src.y)
        dz == Sub(p.z, src.z)
        r2 == Add(Add(Mul(dx, dx), Mul(dy, dy)), Mul(dz, dz))
        o == reb_tools_particle_to_orbit_err(p, src, aConv)
        a0 == o.a
        hVal == IF h.null THEN ub.val ELSE h.val
        dedgeVal == IF dedge.null THEN ub.val ELSE dedge.val
        trap == IF tau_a_ptr.null THEN NoCall
                ELSE TrapTrace(a0, hVal, dedgeVal)
        invtau_a == IF tau_a_ptr.null THEN InvTauAInit
                    ELSE Div(trap.ret, tau_a_ptr.val)
        tau_e == IF tau_e_ptr.null THEN INFINITY ELSE tau_e_ptr.val
        tau_inc == IF tau_inc_ptr.null THEN INFINITY ELSE tau_inc_ptr.val
        drag == Vec(DragTerm(dvx, invtau_a), DragTerm(dvy, invtau_a),
                    DragTerm(dvz, invtau_a))
        vdotr == Add(Add(Mul(dx, dvx), Mul(dy, dvy)), Mul(dz, dvz))
        prefac == Div(Div(Mul(Two, vdotr), r2), tau_e)
        a == IF Less(tau_e, INFINITY) \/ Less(tau_inc, INFINITY)
             THEN Vec(Add(drag.x, Mul(prefac, dx)),
                      Add(drag.y, Mul(prefac, dy)),
                      Add(drag.z, Add(Mul(prefac, dz),
                                      Div(Mul(Two, dvz), tau_inc))))
             ELSE drag
    IN  IF ~tau_a_ptr.null /\ (h.null \/ dedge.null) /\ ub.segv
        THEN [NoEval EXCEPT !.status = "segv",
                            !.derefs = {"disc_edge_width", "inner_disc_edge"},
                            !.a0 = a0, !.err = o.err]
        ELSE [status |-> "returned", a |-> a, invtau_a |-> invtau_a,
              drag |-> drag, trap |-> trap,
              derefs |-> IF tau_a_ptr.null THEN {}
                         ELSE {"disc_edge_width", "inner_disc_edge"},
              a0 |-> a0, err |-> o.err]

\* the outcomes of the reads *h and *dedge of one call
UBOutcomes(pp, fp) ==
    IF "tau_a" \in DOMAIN pp
       /\ ~({"disc_edge_width", "inner_disc_edge"} \subseteq DOMAIN fp)
    THEN {Segv} \cup {Garbage(v) : v \in GarbageValues}
    ELSE {NoUB}

MemoryAfterCallMut(mem) ==
    [mem EXCEPT !.source.vx = Add(mem.source.vx, One)]

\* The memory the evaluator is handed pointers to (the particle, the source,
\* both parameter lists), after a call: the function stores through none of
\* them.
MemoryAfterCall(mem) == mem

-----------------------------------------------------------------------------
(* rebx_inner_disc_edge *)

\* enum REBX_COORDINATES of reboundx.h, a value carried like a number

NoComCall == [coordinates |-> NoValue, back_reactions_inclusive |-> -1,
              reference_name |-> "none", calculate_effect |-> "none"]

REBX_COORDINATES_JACOBI == [k |-> "enum", n |-> 0, d |-> 1]

REBX_COORDINATES_BARYCENTRIC == [k |-> "enum", n |-> 1, d |-> 1]

REBX_COORDINATES_PARTICLE == [k |-> "enum", n |-> 2, d |-> 1]

CoordinatesOfMut(ptr) == REBX_COORDINATES_JACOBI

\* enum REBX_COORDINATES coordinates = REBX_COORDINATES_JACOBI;
\* if (ptr != NULL) coordinates = *ptr;
CoordinatesOf(ptr) ==
    IF ~ptr.null THEN ptr.val ELSE REBX_COORDINATES_JACOBI

back_reactions_inclusive == 1

\* the arguments of the call of rebx_com_force
ComForceArgs(fp) ==
    [coordinates |-> CoordinatesOf(rebx_get_param(fp, "coordinates")),
     back_reactions_inclusive |-> back_reactions_inclusive,
     reference_name |-> "primary",
     calculate_effect |-> "rebx_calculating_orbits_with_inner_disc_edge"]

-----------------------------------------------------------------------------
(* inputs *)

\* semimajor axes the conversion yields: i/2 for i in -1 .. MaxA0Num
MaxA0Num == 5

A0Values == {Fin(i, 2) : i \in -1 .. MaxA0Num}

\* radii of the direct calls of the trap function: i/4, i in -2 .. MaxRNum
MaxRNum == 14

RValues == {Fin(i, 4) : i \in -2 .. MaxRNum} \cup {NaN}

HTrapValues == {Fin(-1, 2), Zero, Fin(1, 4), Fin(1, 2), Two}

DedgeTrapValues == {Fin(-1, 1), Zero, One, Two}

\* timescales are nonzero: positive damps, negative grows
TauAValues == {Two, Fin(-4, 1)}

TauEValues == {Fin(3, 1)}

TauIncValues == {Fin(5, 1)}

HValues == {Fin(1, 2), Zero}

DedgeValues == {One, Two}

CoordinatesValues == {REBX_COORDINATES_JACOBI, REBX_COORDINATES_BARYCENTRIC,
                      REBX_COORDINATES_PARTICLE}

PosValues == {<<0, 0, 0>>, <<1, 0, 0>>, <<1, 2, -1>>}

VelValues == {<<0, 0, 0>>, <<0, 1, 0>>, <<1, -1, 2>>}

Particle(pos, vel, m) ==
    [x |-> Fin(pos[1], 1), y |-> Fin(pos[2], 1), z |-> Fin(pos[3], 1),
     vx |-> Fin(vel[1], 1), vy |-> Fin(vel[2], 1), vz |-> Fin(vel[3], 1),
     m |-> Fin(m, 1)]

ParticleValues == {Particle(pos, vel, 0) : pos \in PosValues, vel \in VelValues}

SourceValues == {Particle(<<0, 0, 0>>, <<0, 0, 0>>, 1),
                 Particle(<<0, 0, 0>>, <<0, 0, 0>>, 0),
                 Particle(<<1, 0, 0>>, <<0, 1, 0>>, 1)}

\* the parameter list holding the entries of cand that are set
Params(cand) == [n \in {m \in DOMAIN cand : cand[m] # NoValue} |-> cand[n]]

ParticleParams ==
    {Params([tau_a |-> a, tau_e |-> e, tau_inc |-> i]) :
        a \in TauAValues \cup {NoValue}, e \in TauEValues \cup {NoValue},
        i \in TauIncValues \cup {NoValue}}

ForceParams ==
    {Params([coordinates |-> c, disc_edge_width |-> h, inner_disc_edge |-> e]) :
        c \in CoordinatesValues \cup {NoValue}, h \in HValues \cup {NoValue},
        e \in DedgeValues \cup {NoValue}}

-----------------------------------------------------------------------------
(* the force pass: rebx_inner_disc_edge, then one evaluator call per body *)

Bodies == DOMAIN particles

\* the states a pass starts from, for the given bodies and inputs
InitPassOver(bodies, pvals, ppvals, fpvals, avals) ==
    /\ pc = "start"
    /\ particles \in [bodies -> pvals]
    /\ pap \in [bodies -> ppvals]
    /\ source \in SourceValues
    /\ fap \in fpvals
    /\ aOracle \in [bodies -> avals]
    /\ comCall = NoComCall
    /\ evalLog = [i \in bodies |-> NoEval]
    /\ trapArgs = [r |-> NoValue, h |-> NoValue, dedge |-> NoValue]
    /\ trapRet = NoCall

\* one body, every combination of its parameters and of the trap's; the
\* force leaves "coordinates" unset
Init ==
    InitPassOver({1}, ParticleValues, ParticleParams,
                 {fp \in ForceParams : "coordinates" \notin DOMAIN fp},
                 A0Values)

\* two bodies and every setting of "coordinates"
InitTwoBodies ==
    InitPassOver({1, 2},
                 {Particle(<<0, 0, 0>>, <<0, 0, 0>>, 0),
                  Particle(<<1, 0, 0>>, <<0, 1, 0>>, 0),
                  Particle(<<1, 2, -1>>, <<1, -1, 2>>, 0)},
                 {ap \in ParticleParams :
                     /\ "tau_inc" \notin DOMAIN ap
                     /\ "tau_a" \in DOMAIN ap => ap["tau_a"] = Two},
                 {fp \in ForceParams :
                     /\ "inner_disc_edge" \in DOMAIN fp
                     /\ fp["inner_disc_edge"] = Two
                     /\ "disc_edge_width" \in DOMAIN fp
                            => fp["disc_edge_width"] = Fin(1, 2)},
                 {One})

rebx_inner_disc_edge ==
    /\ pc = "start"
    /\ comCall' = ComForceArgs(fap)
    /\ pc' = "com_force"
    /\ UNCHANGED <<particles, pap, source, fap, aOracle, evalLog, trapArgs,
                   trapRet>>

\* rebx_com_force hands body i and the source to the evaluator and collects
\* the vector it returns; a read through NULL that kills the process ends
\* the pass
rebx_com_force_step(i) ==
    /\ pc = "com_force"
    /\ evalLog[i] = NoEval
    /\ \E ub \in UBOutcomes(pap[i], fap) :
        LET res == rebx_calculating_orbits_with_inner_disc_edge(
                       particles[i], source, pap[i], fap, aOracle[i], ub)
            mem == MemoryAfterCall([p |-> particles[i], source |-> source,
                                    pap |-> pap[i], fap |-> fap])
        IN  /\ evalLog' = [evalLog EXCEPT ![i] = res]
            /\ pc' = IF res.status = "segv" THEN "aborted" ELSE pc
            /\ particles' = [particles EXCEPT ![i] = mem.p]
            /\ source' = mem.source
            /\ pap' = [pap EXCEPT ![i] = mem.pap]
            /\ fap' = mem.fap
    /\ UNCHANGED <<aOracle, comCall, trapArgs, trapRet>>

Next == rebx_inner_disc_edge \/ \E i \in Bodies : rebx_com_force_step(i)

Spec == Init /\ [][Next]_vars

SpecTwoBodies == InitTwoBodies /\ [][Next]_vars

-----------------------------------------------------------------------------
(* direct calls of rebx_calculate_planet_trap *)

InitTrap ==
    /\ trapArgs \in [r : RValues, h : HTrapValues, dedge : DedgeTrapValues]
    /\ trapRet = NoCall
    /\ pc = "trap"
    /\ particles = <<>>
    /\ pap = <<>>
    /\ source = Particle(<<0, 0, 0>>, <<0, 0, 0>>, 1)
    /\ fap = <<>>
    /\ aOracle = <<>>
    /\ comCall = NoComCall
    /\ evalLog = <<>>

CallTrap ==
    /\ pc = "trap"
    /\ trapRet = NoCall
    /\ trapRet' = TrapTrace(trapArgs.r, trapArgs.h, trapArgs.dedge)
    /\ UNCHANGED <<pc, particles, pap, source, fap, aOracle, comCall, evalLog,
                   trapArgs>>

NextTrap == CallTrap

SpecTrap == InitTrap /\ [][NextTrap]_vars

-----------------------------------------------------------------------------
(* properties of rebx_calculate_planet_trap, under SpecTrap *)

TrapCalled == pc = "trap" /\ trapRet # NoCall

\* r >= 0, h > 0, dedge > 0
ValidTrapArgs ==
    /\ Leq(Zero, trapArgs.r)
    /\ Less(Zero, trapArgs.h)
    /\ Less(Zero, trapArgs.dedge)

\* C3: for r >= 0, h > 0, dedge > 0 the call returns 1.0 when
\* r > dedge*(1+h), -10.0 when r <= dedge*(1-h), and otherwise
\* 5.5*cos(((dedge*(1+h) - r)*2*pi)/(4*h*dedge)) - 4.5, which is -4.5 at
\* r = dedge; the three cases leave no r out and share none.
C3_TrapThreeBranches ==
    (TrapCalled /\ ValidTrapArgs) =>
        LET r == trapArgs.r
            h == trapArgs.h
            dedge == trapArgs.dedge
            hi == Mul(dedge, Add(One, h))
            lo == Mul(dedge, Sub(One, h))
            outer == Less(hi, r)
            floor == Leq(r, lo)
            window == Less(lo, r) /\ Leq(r, hi)
            cosArg == Div(Mul(Sub(hi, r), Mul(Two, M_PI)),
                          Mul(Four, Mul(h, dedge)))
        IN  /\ Cardinality({c \in {"o", "f", "w"} :
                               \/ c = "o" /\ outer
                               \/ c = "f" /\ floor
                               \/ c = "w" /\ window}) = 1
            /\ outer => trapRet.branch = "outer" /\ trapRet.ret = Fin(1, 1)
            /\ floor => trapRet.branch = "floor" /\ trapRet.ret = Fin(-10, 1)
            /\ window => /\ trapRet.branch = "cosine"
                         /\ trapRet.ret
                                = Sub(Mul(Fin(11, 2), Cos(cosArg)), Fin(9, 2))
            /\ r = dedge => trapRet.ret = Fin(-9, 2)

\* a call at the centre of the window, r = dedge
C3_Witness ==
    /\ TrapCalled
    /\ ValidTrapArgs
    /\ trapArgs.r = trapArgs.dedge
    /\ trapRet.branch = "cosine"

\* C4: for r >= 0, h > 0, dedge > 0 the value returned lies in [-10, 1],
\* and when the cosine branch is taken its argument lies in [0, pi).
C4_TrapBounds ==
    (TrapCalled /\ ValidTrapArgs) =>
        /\ Leq(Fin(-10, 1), trapRet.ret)
        /\ Leq(trapRet.ret, Fin(1, 1))
        /\ trapRet.branch = "cosine" =>
               /\ Leq(Zero, trapRet.arg)
               /\ Less(trapRet.arg, M_PI)

\* a call in the second half of the window: the argument is past pi/2 and
\* the value strictly between -10 and -4.5
C4_Witness ==
    /\ TrapCalled
    /\ ValidTrapArgs
    /\ trapRet.branch = "cosine"
    /\ Less(Fin(1, 2), trapRet.arg)
    /\ Less(Fin(-10, 1), trapRet.ret)
    /\ Less(trapRet.ret, Fin(-9, 2))

\* C10 as stated: a call with h = 0 divides by 4*h*dedge, a zero divisor.
C10_ZeroWidthDividesByZero ==
    (TrapCalled /\ trapArgs.h = Zero) =>
        /\ trapRet.branch = "cosine"
        /\ trapRet.divisor = Zero

\* C10 amended: a call with h = 0 never takes the cosine branch, so it
\* performs no division; it returns 1.0 when r > dedge and -10.0 otherwise.
C10_ZeroWidthNeverDivides ==
    (TrapCalled /\ trapArgs.h = Zero) =>
        /\ trapRet.branch # "cosine"
        /\ trapRet.divisor = NoValue
        /\ trapRet.ret = IF Less(trapArgs.dedge, trapArgs.r)
                         THEN Fin(1, 1) ELSE Fin(-10, 1)

\* a call with h = 0 at r = dedge > 0, the one radius of the closed window
C10_Witness ==
    /\ TrapCalled
    /\ trapArgs.h = Zero
    /\ Less(Zero, trapArgs.dedge)
    /\ trapArgs.r = trapArgs.dedge
    /\ trapRet.ret = Fin(-10, 1)

-----------------------------------------------------------------------------
(* properties of the evaluator, under Spec *)

Evaluated(i) == evalLog[i] # NoEval

HasParam(ap, name) == name \in DOMAIN ap

EdgeParamsSet == HasParam(fap, "inner_disc_edge") /\ HasParam(fap, "disc_edge_width")

\* the relative velocity p - source of body i
RelVel(i) ==
    Vec(Sub(particles[i].vx, source.vx), Sub(particles[i].vy, source.vy),
        Sub(particles[i].vz, source.vz))

AtSource(i) ==
    /\ particles[i].x = source.x
    /\ particles[i].y = source.y
    /\ particles[i].z = source.z

\* C1 as stated: with tau_a set and inner_disc_edge or disc_edge_width unset,
\* the call returns, reads no unset value, makes no trap call and leaves
\* invtau_a at 0.
C1_MissingEdgeDisablesDamping ==
    \A i \in Bodies :
        (Evaluated(i) /\ HasParam(pap[i], "tau_a") /\ ~EdgeParamsSet) =>
            /\ evalLog[i].status = "returned"
            /\ evalLog[i].trap = NoCall
            /\ evalLog[i].invtau_a = Zero

\* C2 as stated: when the conversion fails (err set), with tau_a,
\* inner_disc_edge and disc_edge_width all set, the call returns without
\* handing a0 to the trap function, and the drag term is zero.
C2_FailedConversionSkipsDamping ==
    \A i \in Bodies :
        (/\ Evaluated(i)
         /\ evalLog[i].err # 0
         /\ HasParam(pap[i], "tau_a")
         /\ EdgeParamsSet) =>
            /\ evalLog[i].status = "returned"
            /\ evalLog[i].trap = NoCall
            /\ evalLog[i].drag = ZeroVec

\* C5: with tau_a unset the call returns without calling the trap function
\* and without reading h or dedge, invtau_a stays 0, the drag term is zero in
\* every component, and with tau_e and tau_inc unset too the vector returned
\* is zero.
C5_NoTauANoDamping ==
    \A i \in Bodies :
        (Evaluated(i) /\ ~HasParam(pap[i], "tau_a")) =>
            /\ evalLog[i].status = "returned"
            /\ evalLog[i].trap = NoCall
            /\ evalLog[i].derefs = {}
            /\ evalLog[i].invtau_a = Zero
            /\ evalLog[i].drag = ZeroVec
            /\ (~HasParam(pap[i], "tau_e") /\ ~HasParam(pap[i], "tau_inc"))
                   => evalLog[i].a = ZeroVec

\* tau_a, h and dedge all unset, tau_e set, and the e/inc channel alone gives
\* a non-zero vector
C5_Witness ==
    /\ Evaluated(1)
    /\ DOMAIN pap[1] = {"tau_e"}
    /\ DOMAIN fap = {}
    /\ evalLog[1].a # ZeroVec
    /\ IsFin(evalLog[1].a.x)

\* C6: with tau_a set, tau_e and tau_inc unset and h, dedge set, the vector
\* returned is k*(dvx, dvy, dvz) with k = trap(a0, h, dedge)/(2*tau_a).
C6_DampingAlongVelocity ==
    \A i \in Bodies :
        (/\ Evaluated(i)
         /\ DOMAIN pap[i] = {"tau_a"}
         /\ EdgeParamsSet) =>
            LET k == Div(rebx_calculate_planet_trap(
                             evalLog[i].a0, fap["disc_edge_width"],
                             fap["inner_disc_edge"]),
                         Mul(Two, pap[i]["tau_a"]))
                dv == RelVel(i)
            IN  /\ evalLog[i].status = "returned"
                /\ evalLog[i].a
                       = Vec(Mul(k, dv.x), Mul(k, dv.y), Mul(k, dv.z))

\* such a call inside the edge window (cosine branch), all three components
\* of the relative velocity and of the result non-zero
C6_Witness ==
    /\ Evaluated(1)
    /\ DOMAIN pap[1] = {"tau_a"}
    /\ EdgeParamsSet
    /\ evalLog[1].trap.branch = "cosine"
    /\ \A c \in {"x", "y", "z"} : evalLog[1].a[c] \notin {Zero, NaN}

\* C7 as stated: for a body at rest relative to the source, away from it,
\* with tau_a set, the call returns exactly (0, 0, 0).
C7_AtRestZeroForce ==
    \A i \in Bodies :
        (/\ Evaluated(i)
         /\ RelVel(i) = ZeroVec
         /\ ~AtSource(i)
         /\ HasParam(pap[i], "tau_a")) =>
            /\ evalLog[i].status = "returned"
            /\ evalLog[i].a = ZeroVec

-----------------------------------------------------------------------------
(* properties of the pass, under SpecTwoBodies *)

\* what a call for body i can yield in the present state
CallResults(i) ==
    {rebx_calculating_orbits_with_inner_disc_edge(
         particles[i], source, pap[i], fap, aOracle[i], ub) :
        ub \in UBOutcomes(pap[i], fap)}

\* C8: no step changes a field of a body, of the source, or a parameter of a
\* body or of the force, nor the arguments of a trap call, nor a result
\* already collected; so each result collected is what a call for that body
\* alone yields, whichever bodies were evaluated before it.
C8_CallsChangeNothing ==
    /\ [][/\ particles' = particles
          /\ source' = source
          /\ pap' = pap
          /\ fap' = fap
          /\ trapArgs' = trapArgs
          /\ \A i \in Bodies : Evaluated(i) => evalLog'[i] = evalLog[i]]_vars
    /\ [](\A i \in Bodies : Evaluated(i) => evalLog[i] \in CallResults(i))

\* both bodies evaluated, each with tau_a set, with different non-zero results
C8_Witness ==
    /\ Bodies = {1, 2}
    /\ \A i \in Bodies : /\ evalLog[i].status = "returned"
                         /\ HasParam(pap[i], "tau_a")
                         /\ evalLog[i].a.x \notin {Zero, NaN}
    /\ evalLog[1].a # evalLog[2].a

\* C9: the call of rebx_com_force carries the Jacobi frame when the force has
\* no "coordinates" parameter and the configured frame when it has one, with
\* the back-reaction flag 1 and the evaluator as the per-body function.
C9_DispatchArguments ==
    pc # "start" =>
        /\ comCall.coordinates
               = IF HasParam(fap, "coordinates") THEN fap["coordinates"]
                 ELSE REBX_COORDINATES_JACOBI
        /\ comCall.back_reactions_inclusive = 1
        /\ comCall.calculate_effect
               = "rebx_calculating_orbits_with_inner_disc_edge"

\* the entry point has run with "coordinates" set to the barycentric frame
C9_Witness ==
    /\ pc = "com_force"
    /\ HasParam(fap, "coordinates")
    /\ fap["coordinates"] = REBX_COORDINATES_BARYCENTRIC
    /\ comCall.coordinates = REBX_COORDINATES_BARYCENTRIC

====
